---- MODULE Spec2Model ----
(***************************************************************************)
(* hzgfx: linear numeric intervals (hzgfx/interval.py), and the interval,  *)
(* linear map, plane and plane-to-plane map of hzgfx/cartmap.py.           *)
(*                                                                         *)
(* Numbers.  A Python number is modelled as a record [t, n, d]: its type   *)
(* ("int" or "float") and its exact value n/d.  An int has d = 1.  A float *)
(* is a binary floating-point number: d is a power of two and every float  *)
(* operation rounds its exact result to Prec significant bits, ties to     *)
(* even, as IEEE-754 arithmetic does (with 53 bits in CPython).            *)
(*                                                                         *)
(* Interpreter.  The package supports Python 2 and Python 3                *)
(* (hzgfx/color.py, isstring), and the two differ in the operations the    *)
(* code uses: int / int floors in Python 2 and is a float division in      *)
(* Python 3; round() breaks ties away from zero in Python 2 and to even in *)
(* Python 3.  The interpreter is the variable py, chosen in Init.          *)
(***************************************************************************)
EXTENDS Integers, Sequences, FiniteSets, TLC

\* ------------------------------------------------------------- bounds
\* Significant bits of a float.
Prec == 11
\* Integer limits and values of intervals are drawn from -MaxN .. MaxN.
MaxN == 2
\* Integer steps of intervals are drawn from -MaxStep .. MaxStep.
MaxStep == 3
\* Float limits, values and steps are the halves k/2, k in -MaxF .. MaxF.
MaxF == 2
\* Integer offsets are drawn from -MaxOff .. MaxOff.
MaxOff == 5
\* Corner coordinates of a source plane are drawn from {-1, 0, MaxC}.
MaxC == 2
\* Corner coordinates of a target plane are drawn from {0, MaxT}.
MaxT == 1

\* ------------------------------------------------------------- numbers
RECURSIVE Pow2(_)
Pow2(k) == IF k = 0 THEN 1 ELSE 2 * Pow2(k - 1)

Abs(k) == IF k < 0 THEN -k ELSE k

Sign(k) == IF k < 0 THEN -1 ELSE IF k > 0 THEN 1 ELSE 0

\* floor(x / y) for any x and any y # 0.
FloorDiv(x, y) == IF y > 0 THEN x \div y ELSE (-x) \div (-y)

\* The integer nearest to x / y (x >= 0, y > 0), ties to the even one.
RoundHalfEven(x, y) ==
    LET q == x \div y
        r == x % y
    IN  IF 2 * r < y THEN q
        ELSE IF 2 * r > y THEN q + 1
        ELSE IF q % 2 = 0 THEN q ELSE q + 1

\* The integer nearest to x / y (x >= 0, y > 0), ties away from zero.
RoundHalfUp(x, y) ==
    LET q == x \div y
        r == x % y
    IN  IF 2 * r < y THEN q ELSE q + 1

\* n / d in lowest terms, for d a power of two.
RECURSIVE Reduce(_, _)
Reduce(n, d) ==
    IF d > 1 /\ n % 2 = 0 THEN Reduce(n \div 2, d \div 2) ELSE <<n, d>>

PyI(k) == [t |-> "int", n |-> k, d |-> 1]

PyF(n, d) == LET r == Reduce(n, d) IN [t |-> "float", n |-> r[1], d |-> r[2]]

\* The float nearest to a / d (a > 0, d > 0), as <<numerator, denominator>>:
\* a * up / (d * dn) is brought into [2^(Prec-1), 2^Prec), rounded to an
\* integer m, and the value is m * dn / up.
MaxSig == Pow2(Prec)

MinSig == Pow2(Prec - 1)

RECURSIVE FlScale(_, _, _, _)
FlScale(a, d, up, dn) ==
    IF a * up >= d * dn * MaxSig THEN FlScale(a, d, up, 2 * dn)
    ELSE IF a * up < d * dn * MinSig THEN FlScale(a, d, 2 * up, dn)
    ELSE <<RoundHalfEven(a * up, d * dn) * dn, up>>

RECURSIVE GCD(_, _)
GCD(x, y) == IF y = 0 THEN x ELSE GCD(y, x % y)

\* The float nearest to n / d (d > 0): the rounding of every float operation.
Fl(n, d) ==
    IF n = 0 THEN PyF(0, 1)
    ELSE LET g == GCD(Abs(n), d)
             r == FlScale(Abs(n) \div g, d \div g, 1, 1)
         IN  PyF(Sign(n) * r[1], r[2])

IsFloat(x) == x.t = "float"

\* float( x )
ToFloat(x) == Fl(x.n, x.d)

\* Python's x + y, x - y, x * y: exact on two ints, rounded otherwise.
Arith(x, y, n, d) == IF IsFloat(x) \/ IsFloat(y) THEN Fl(n, d) ELSE PyI(n)

\* The common denominator of x and y (both powers of two).
Den(x, y) == IF x.d > y.d THEN x.d ELSE y.d

\* The numerator of x over the denominator d, a multiple of x.d.
Num(x, d) == x.n * (d \div x.d)

Add(x, y) == LET d == Den(x, y) IN Arith(x, y, Num(x, d) + Num(y, d), d)

Sub(x, y) == LET d == Den(x, y) IN Arith(x, y, Num(x, d) - Num(y, d), d)

Mul(x, y) == Arith(x, y, x.n * y.n, x.d * y.d)

\* Python's x / y for y # 0: on two ints Python 2 floors and Python 3
\* divides as floats; with a float operand both divide as floats.
Div(p, x, y) ==
    IF ~IsFloat(x) /\ ~IsFloat(y) /\ p = 2
    THEN PyI(FloorDiv(x.n, y.n))
    ELSE Fl(Sign(y.n) * x.n * y.d, x.d * Abs(y.n))

\* abs( x )
PyAbs(x) == [x EXCEPT !.n = Abs(x.n)]

\* int( x ): truncation toward zero.
PyInt(x) == Sign(x.n) * (Abs(x.n) \div x.d)

\* int( round( x ) ): Python 2 rounds ties away from zero, Python 3 to even.
PyIntRound(p, x) ==
    IF p = 2 THEN Sign(x.n) * RoundHalfUp(Abs(x.n), x.d)
    ELSE Sign(x.n) * RoundHalfEven(Abs(x.n), x.d)

\* Python's comparisons compare values, whatever the types.
Eq(x, y) == x.n * y.d = y.n * x.d

Lt(x, y) == x.n * y.d < y.n * x.d

Le(x, y) == x.n * y.d <= y.n * x.d

\* None, where an argument is omitted or a call returns no number.
NoneV == [t |-> "none", n |-> 0, d |-> 1]

\* ------------------------------------------------------------- state
VARIABLES
    py,     \* the interpreter's major version, 2 or 3
    iv,     \* the interval: its module, its class and its three fields
    res,    \* the last call on the interval: operation, argument, result
    it,     \* the generator made by iter( iv ): its position
    out,    \* the values the current generator has yielded
    prev,   \* the values yielded by the last generator run to exhaustion
    src,    \* the source Plane
    tgt,    \* the target Plane
    pmap,   \* the Map built from src and tgt, and how it was built
    mres,   \* the last Map.translate call: point, nearest, result
    lmap,   \* the LinearMap built from an axis of src and one of tgt
    lres,   \* the last LinearMap.translate or subscript call
    thePlane, \* a Plane, with the arguments it was constructed from
    pres    \* the last attribute read on thePlane or on iv

ivars == <<iv, res, it, out, prev>>

mvars == <<src, tgt, pmap, mres, lmap, lres>>

pvars == <<thePlane, pres>>

vars ==
    <<py, iv, res, it, out, prev, src, tgt, pmap, mres, lmap, lres,
      thePlane, pres>>

\* ------------------------------------------------------------- Interval
\* Interval.__init__ (both modules; RealInterval inherits it).
IntervalInit(mod, real, start, stop, step) ==
    IF stop = NoneV
    THEN [mod |-> mod, real |-> real,
          start |-> IF IsFloat(start) THEN PyF(0, 1) ELSE PyI(0),
          stop |-> start, step |-> step]
    ELSE [mod |-> mod, real |-> real,
          start |-> start, stop |-> stop, step |-> step]

\* The positional arguments of interval(): args.kind is "nums" for zero to
\* three numbers, "seq" for one tuple or list of numbers, "none" for None;
\* args.vals are the numbers.
AnyFloat(vals) == \E k \in 1 .. Len(vals) : IsFloat(vals[k])

\* Mutant: a factory that looks at the type of the first number only.
intervalByFirst(args) ==
    IF args.kind = "none" \/ Len(args.vals) = 0
    THEN IntervalInit("interval", TRUE, PyF(1, 1), NoneV, PyI(1))
    ELSE LET v == args.vals
         IN  IntervalInit("interval", IsFloat(v[1]), v[1],
                          IF Len(v) <= 1 THEN NoneV ELSE v[2],
                          IF Len(v) <= 2 THEN PyI(1) ELSE v[3])

\* interval( *args ): the sequence is cut to its first three values for
\* the constructor and searched whole for a float.
interval(args) ==
    IF args.kind = "none" \/ (args.kind = "nums" /\ Len(args.vals) = 0)
    THEN IntervalInit("interval", TRUE, PyF(1, 1), NoneV, PyI(1))
    ELSE IF args.kind = "seq"
    THEN LET v == SubSeq(args.vals, 1,
                         IF Len(args.vals) < 3 THEN Len(args.vals) ELSE 3)
         IN  IntervalInit("interval", AnyFloat(args.vals), v[1],
                          IF Len(v) <= 1 THEN NoneV ELSE v[2],
                          IF Len(v) <= 2 THEN PyI(1) ELSE v[3])
    ELSE LET start == args.vals[1]
             stop  == IF Len(args.vals) <= 1 THEN NoneV ELSE args.vals[2]
             step  == IF Len(args.vals) <= 2 THEN PyI(1) ELSE args.vals[3]
         IN  IntervalInit("interval", AnyFloat(args.vals), start, stop, step)

\* Interval.__getattr__: delta, neg, pos.
delta(i) == Sub(i.stop, i.start)

neg(i) == Lt(i.stop, i.start)

pos(i) == Lt(i.start, i.stop)

\* A division by the step raises ZeroDivisionError when the step is zero.
StepIsZero(i) == i.step.n = 0

\* Interval.__len__ and RealInterval.__len__ (both modules), step # 0.
IntervalLen(p, i) == PyInt(PyAbs(Div(p, delta(i), i.step)))

RealIntervalLen(p, i) == PyInt(PyAbs(Div(p, Add(delta(i), i.step), i.step)))

Length(p, i) == IF i.real THEN RealIntervalLen(p, i) ELSE IntervalLen(p, i)

\* Mutant: a membership test that includes the stop bound.
IntervalContainsClosed(i, value) ==
    IF neg(i) /\ Le(value, i.start) /\ Le(i.stop, value) THEN TRUE
    ELSE IF Le(i.start, value) /\ Le(value, i.stop) THEN TRUE
    ELSE FALSE

\* Interval.__contains__ and RealInterval.__contains__ (hzgfx.interval).
IntervalContains(i, value) ==
    IF neg(i) /\ Le(value, i.start) /\ Lt(i.stop, value) THEN TRUE
    ELSE IF Le(i.start, value) /\ Lt(value, i.stop) THEN TRUE
    ELSE FALSE

RealIntervalContains(i, value) ==
    IF neg(i) /\ Le(value, i.start) /\ Le(i.stop, value) THEN TRUE
    ELSE IF Le(i.start, value) /\ Le(value, i.stop) THEN TRUE
    ELSE FALSE

Contains(i, value) ==
    IF i.real THEN RealIntervalContains(i, value) ELSE IntervalContains(i, value)

\* Mutant: an offset clamped to the positions 0 .. length.
OffsetClamped(offset, length) ==
    LET o == IF IsFloat(offset) THEN PyInt(Mul(offset, PyI(length)))
             ELSE offset.n
        k == IF o < 0 THEN o + length ELSE o
    IN  IF k < 0 THEN 0 ELSE IF k > length THEN length ELSE k

\* Mutant: a ratio rounded to the nearest position instead of truncated.
OffsetRounded(offset, length) ==
    LET o == IF IsFloat(offset)
             THEN PyIntRound(3, Mul(offset, PyI(length)))
             ELSE offset.n
    IN  IF o < 0 THEN o + length ELSE o

\* Mutant: a negative offset wraps around like a sequence index.
OffsetWrapped(offset, length) ==
    LET o == IF IsFloat(offset) THEN PyInt(Mul(offset, PyI(length)))
             ELSE offset.n
    IN  IF o < 0 /\ length > 0 THEN o % length ELSE o

\* The integer offset __getitem__ evaluates: a float offset is a ratio of the
\* length, a negative offset has the length added once.
Offset(offset, length) ==
    LET o == IF IsFloat(offset) THEN PyInt(Mul(offset, PyI(length)))
             ELSE offset.n
    IN  IF o < 0 THEN o + length ELSE o

\* Interval.__getitem__ of hzgfx.interval, step # 0.
IntervalGetItem(p, i, offset) ==
    LET o == PyI(Offset(offset, Length(p, i)))
    IN  IF neg(i) THEN Add(i.stop, Mul(i.step, o))
        ELSE Add(i.start, Mul(i.step, o))

\* Interval.__getitem__ of hzgfx.cartmap, step # 0.
CartmapGetItem(p, i, offset) ==
    Add(i.start, Mul(i.step, PyI(Offset(offset, Length(p, i)))))

GetItem(p, i, offset) ==
    IF i.mod = "interval" THEN IntervalGetItem(p, i, offset)
    ELSE CartmapGetItem(p, i, offset)

\* Interval.getpos of hzgfx.interval for a value in the interval, step # 0.
GetPos(p, i, value) == PyIntRound(p, Div(p, Sub(value, i.start), i.step))

\* Mutant: a positive interval walked over range( 1, n + 1 ).
IntervalIterValueFromOne(i, n, k) ==
    IF neg(i) THEN Add(i.stop, Mul(i.step, PyI(n - k)))
    ELSE Add(i.start, Mul(i.step, PyI(k + 1)))

\* Interval.__iter__: the value yielded after k earlier ones, of n in all.
\* hzgfx.interval walks a negative interval over range( n, 0, -1 ) from the
\* stop; every other interval is walked over range( n ) from the start.
IntervalIterValue(i, n, k) ==
    IF neg(i) THEN Add(i.stop, Mul(i.step, PyI(n - k)))
    ELSE Add(i.start, Mul(i.step, PyI(k)))

CartmapIterValue(i, n, k) == Add(i.start, Mul(i.step, PyI(k)))

IterValue(i, n, k) ==
    IF i.mod = "interval" THEN IntervalIterValue(i, n, k)
    ELSE CartmapIterValue(i, n, k)

\* ------------------------------------------------------------- cartmap
AXIS_HORIZONTAL == 1

AXIS_VERTICAL == 2

\* Line( a, b ), Point( x, y )
Line(a, b) == [a |-> a, b |-> b]

Point(x, y) == [x |-> x, y |-> y]

NoLine == Line(NoneV, NoneV)

NoPoint == Point(NoneV, NoneV)

\* a * point + b, as LinearMap.translate and Map.translate evaluate it.
Affine(line, point) == Add(Mul(line.a, point), line.b)

\* Mutant: a LinearMap whose intercept is taken at the stop of the source.
LinearMapInitFromStop(p, source, target, fill, clip) ==
    LET a == Div(p, delta(target), ToFloat(delta(source)))
        b == Sub(target.start, Mul(a, source.stop))
    IN  [source |-> source, target |-> target, scale |-> Line(a, b)]

\* LinearMap.__init__ for source.delta # 0: fill and clip are accepted and
\* not used, and the object keeps neither.
LinearMapInit(p, source, target, fill, clip) ==
    LET a == Div(p, delta(target), ToFloat(delta(source)))
        b == Sub(target.start, Mul(a, source.start))
    IN  [source |-> source, target |-> target, scale |-> Line(a, b)]

\* LinearMap.translate, and LinearMap.__getitem__ which calls it.
LinearMapTranslate(m, point) == Affine(m.scale, point)

LinearMapGetItem(m, point) == LinearMapTranslate(m, point)

\* An argument of Plane.__init__: a number, a two-tuple, or None.
ArgNum(v) == [kind |-> "num", a |-> v, b |-> v]

ArgPair(a, b) == [kind |-> "pair", a |-> a, b |-> b]

ArgNone == [kind |-> "none", a |-> NoneV, b |-> NoneV]

\* type( v )( 0 )
ZeroOf(v) == IF IsFloat(v) THEN PyF(0, 1) ELSE PyI(0)

\* Mutant: a sized plane whose width and height are exchanged.
PlaneInitTransposed(lefttop, rightbot, step) ==
    LET xstep == IF step.kind = "none" THEN PyI(1) ELSE step.a
        ystep == IF step.kind = "none" THEN PyI(1) ELSE step.b
        sized == rightbot.kind = "none"
        left  == IF sized THEN ZeroOf(lefttop.b) ELSE lefttop.a
        top   == IF sized THEN ZeroOf(lefttop.a) ELSE lefttop.b
        right == IF sized THEN lefttop.b ELSE rightbot.a
        bot   == IF sized THEN lefttop.a ELSE rightbot.b
    IN  [x |-> IntervalInit("cartmap", FALSE, left, right, xstep),
         y |-> IntervalInit("cartmap", FALSE, top, bot, ystep)]

\* Plane.__init__: the axes _x and _y are Intervals of hzgfx.cartmap; an
\* omitted step is 1.
PlaneInit(lefttop, rightbot, step) ==
    LET xstep == IF step.kind = "none" THEN PyI(1) ELSE step.a
        ystep == IF step.kind = "none" THEN PyI(1) ELSE step.b
        sized == rightbot.kind = "none"
        left  == IF sized THEN ZeroOf(lefttop.a) ELSE lefttop.a
        top   == IF sized THEN ZeroOf(lefttop.b) ELSE lefttop.b
        right == IF sized THEN lefttop.a ELSE rightbot.a
        bot   == IF sized THEN lefttop.b ELSE rightbot.b
    IN  [x |-> IntervalInit("cartmap", FALSE, left, right, xstep),
         y |-> IntervalInit("cartmap", FALSE, top, bot, ystep)]

\* Plane.__getattr__: the attributes the maps read.
deltax(plane) == delta(plane.x)

deltay(plane) == delta(plane.y)

left(plane) == plane.x.start

right(plane) == plane.x.stop

top(plane) == plane.y.start

bottom(plane) == plane.y.stop

lefttop(plane) == Point(plane.x.start, plane.y.start)

rightbot(plane) == Point(plane.x.stop, plane.y.stop)

\* The outcome of an attribute read: a number, a Point or a Dimension (two
\* numbers), a truth value, or an exception.
Attr(kind, a, b, flag, err) ==
    [kind |-> kind, a |-> a, b |-> b, flag |-> flag, err |-> err]

AttrNum(v) == Attr("num", v, NoneV, FALSE, "")

AttrPoint(x, y) == Attr("point", x, y, FALSE, "")

AttrDimension(w, h) == Attr("dimension", w, h, FALSE, "")

AttrBool(f) == Attr("bool", NoneV, NoneV, f, "")

AttrRaises(err) == Attr("none", NoneV, NoneV, FALSE, err)

\* Mutant: a Plane whose height is read off the horizontal axis.
PlaneGetAttrHeightOfX(p, pl, name) ==
    IF name = "aspect"
    THEN IF deltay(pl).n = 0 THEN AttrRaises("ZeroDivisionError")
         ELSE AttrNum(Div(p, deltax(pl), deltay(pl)))
    ELSE IF name \in {"bottom", "b"} THEN AttrNum(pl.y.stop)
    ELSE IF name \in {"delta", "d"} THEN AttrDimension(deltax(pl), deltay(pl))
    ELSE IF name \in {"deltax", "dx"} THEN AttrNum(deltax(pl))
    ELSE IF name \in {"deltay", "dy"} THEN AttrNum(deltay(pl))
    ELSE IF name \in {"dimensions", "dim"}
    THEN IF StepIsZero(pl.x) \/ StepIsZero(pl.y)
         THEN AttrRaises("ZeroDivisionError")
         ELSE AttrDimension(PyI(IntervalLen(p, pl.x)),
                            PyI(IntervalLen(p, pl.y)))
    ELSE IF name \in {"height", "h"}
    THEN IF StepIsZero(pl.x) THEN AttrRaises("ZeroDivisionError")
         ELSE AttrNum(PyI(IntervalLen(p, pl.x)))
    ELSE IF name \in {"left", "l"} THEN AttrNum(pl.x.start)
    ELSE IF name \in {"lefttop", "lt"} THEN AttrPoint(pl.x.start, pl.y.start)
    ELSE IF name \in {"right", "r"} THEN AttrNum(pl.x.stop)
    ELSE IF name \in {"rightbot", "rb"} THEN AttrPoint(pl.x.stop, pl.y.stop)
    ELSE IF name \in {"top", "t"} THEN AttrNum(pl.y.start)
    ELSE IF name \in {"width", "w"}
    THEN IF StepIsZero(pl.x) THEN AttrRaises("ZeroDivisionError")
         ELSE AttrNum(PyI(IntervalLen(p, pl.x)))
    ELSE AttrRaises("AttributeError")

\* Plane.__getattr__: len( axis ) and the division of aspect raise
\* ZeroDivisionError on a zero step and on a zero vertical delta.
PlaneGetAttr(p, pl, name) ==
    IF name = "aspect"
    THEN IF deltay(pl).n = 0 THEN AttrRaises("ZeroDivisionError")
         ELSE AttrNum(Div(p, deltax(pl), deltay(pl)))
    ELSE IF name \in {"bottom", "b"} THEN AttrNum(pl.y.stop)
    ELSE IF name \in {"delta", "d"} THEN AttrDimension(deltax(pl), deltay(pl))
    ELSE IF name \in {"deltax", "dx"} THEN AttrNum(deltax(pl))
    ELSE IF name \in {"deltay", "dy"} THEN AttrNum(deltay(pl))
    ELSE IF name \in {"dimensions", "dim"}
    THEN IF StepIsZero(pl.x) \/ StepIsZero(pl.y)
         THEN AttrRaises("ZeroDivisionError")
         ELSE AttrDimension(PyI(IntervalLen(p, pl.x)),
                            PyI(IntervalLen(p, pl.y)))
    ELSE IF name \in {"height", "h"}
    THEN IF StepIsZero(pl.y) THEN AttrRaises("ZeroDivisionError")
         ELSE AttrNum(PyI(IntervalLen(p, pl.y)))
    ELSE IF name \in {"left", "l"} THEN AttrNum(pl.x.start)
    ELSE IF name \in {"lefttop", "lt"} THEN AttrPoint(pl.x.start, pl.y.start)
    ELSE IF name \in {"right", "r"} THEN AttrNum(pl.x.stop)
    ELSE IF name \in {"rightbot", "rb"} THEN AttrPoint(pl.x.stop, pl.y.stop)
    ELSE IF name \in {"top", "t"} THEN AttrNum(pl.y.start)
    ELSE IF name \in {"width", "w"}
    THEN IF StepIsZero(pl.x) THEN AttrRaises("ZeroDivisionError")
         ELSE AttrNum(PyI(IntervalLen(p, pl.x)))
    ELSE AttrRaises("AttributeError")

\* An attribute read on an Interval: start, stop and step are stored on the
\* object; every other name goes to Interval.__getattr__, which knows delta,
\* neg and pos in hzgfx.interval and delta alone in hzgfx.cartmap.
IntervalGetAttr(i, name) ==
    IF name = "start" THEN AttrNum(i.start)
    ELSE IF name = "stop" THEN AttrNum(i.stop)
    ELSE IF name = "step" THEN AttrNum(i.step)
    ELSE IF name = "delta" THEN AttrNum(delta(i))
    ELSE IF name = "neg" /\ i.mod = "interval" THEN AttrBool(neg(i))
    ELSE IF name = "pos" /\ i.mod = "interval" THEN AttrBool(pos(i))
    ELSE AttrRaises("AttributeError")

\* Mutant: a constructor that takes its lines only when both are given.
MapInitBothDefault(horizontal, vertical) ==
    IF horizontal = NoLine \/ vertical = NoLine
    THEN [horizontal |-> Line(PyF(1, 1), PyF(0, 1)),
          vertical |-> Line(PyF(1, 1), PyF(0, 1))]
    ELSE [horizontal |-> horizontal, vertical |-> vertical]

\* Map.__init__, with None for an omitted line.
MapInit(horizontal, vertical) ==
    [horizontal |-> IF horizontal = NoLine THEN Line(PyF(1, 1), PyF(0, 1))
                    ELSE horizontal,
     vertical |-> IF vertical = NoLine THEN Line(PyF(1, 1), PyF(0, 1))
                  ELSE vertical]

\* No Map: the call raised, or returned None.
NoMap == [horizontal |-> NoLine, vertical |-> NoLine]

\* Mutant: map_extremes whose vertical intercept starts from the top of the
\* target and still scales the left of the source.
MapExtremesTopLeft(p, source, target) ==
    LET xslope     == Div(p, deltax(target), ToFloat(deltax(source)))
        xintercept == Sub(left(target), Mul(xslope, left(source)))
        yslope     == Div(p, deltay(target), ToFloat(deltay(source)))
        yintercept == Sub(top(target), Mul(yslope, left(source)))
    IN  MapInit(Line(xslope, xintercept), Line(yslope, yintercept))

\* Map.map_extremes for nonzero source deltas.
MapExtremes(p, source, target) ==
    LET xslope     == Div(p, deltax(target), ToFloat(deltax(source)))
        xintercept == Sub(left(target), Mul(xslope, left(source)))
        yslope     == Div(p, deltay(target), ToFloat(deltay(source)))
        yintercept == Sub(left(target), Mul(yslope, left(source)))
    IN  MapInit(Line(xslope, xintercept), Line(yslope, yintercept))

\* Mutant: map_clipped that puts the scaled height below the middle of
\* the target instead of centring it.
MapClippedBelowMid(p, source, target, fixed) ==
    IF fixed = AXIS_VERTICAL THEN NoMap
    ELSE
    LET theight    == Div(p, Mul(deltay(source), ToFloat(deltax(target))),
                          ToFloat(deltax(source)))
        mid        == Add(top(target), Div(p, deltay(target), PyF(2, 1)))
        ytop       == mid
        yslope     == Div(p, theight, ToFloat(deltay(source)))
        yintercept == Sub(ytop, Mul(yslope, top(source)))
        xslope     == Div(p, deltax(target), ToFloat(deltax(source)))
        xintercept == Sub(left(target), Mul(xslope, left(source)))
    IN  MapInit(Line(xslope, xintercept), Line(yslope, yintercept))

\* Map.map_clipped for nonzero source deltas: with fixed == AXIS_VERTICAL
\* the branch is empty and the call returns None.
MapClipped(p, source, target, fixed) ==
    IF fixed = AXIS_VERTICAL THEN NoMap
    ELSE
    LET theight    == Div(p, Mul(deltay(source), ToFloat(deltax(target))),
                          ToFloat(deltax(source)))
        mid        == Add(top(target), Div(p, deltay(target), PyF(2, 1)))
        ytop       == Sub(mid, Div(p, theight, PyF(2, 1)))
        yslope     == Div(p, theight, ToFloat(deltay(source)))
        yintercept == Sub(ytop, Mul(yslope, top(source)))
        xslope     == Div(p, deltax(target), ToFloat(deltax(source)))
        xintercept == Sub(left(target), Mul(xslope, left(source)))
    IN  MapInit(Line(xslope, xintercept), Line(yslope, yintercept))

\* map_clipped raises ZeroDivisionError on a zero source delta, unless it
\* returns None before dividing; map_extremes raises on either.
MapClippedRaises(source, fixed) ==
    fixed # AXIS_VERTICAL /\ (deltax(source).n = 0 \/ deltay(source).n = 0)

MapExtremesRaises(source) == deltax(source).n = 0 \/ deltay(source).n = 0

\* The nearest argument of Map.translate: one flag, or a pair of flags.
NearFlag(f) == [kind |-> "flag", x |-> f, y |-> f]

NearPair(fx, fy) == [kind |-> "pair", x |-> fx, y |-> fy]

\* Mutant: translate that truncates where it should round.
MapTranslateTruncated(p, m, point, nearest) ==
    LET pt       == IF point = NoPoint THEN Point(PyF(0, 1), PyF(0, 1))
                    ELSE point
        target_x == Affine(m.horizontal, pt.x)
        target_y == Affine(m.vertical, pt.y)
    IN  Point(IF nearest.x THEN PyI(PyInt(target_x)) ELSE target_x,
              IF nearest.y THEN PyI(PyInt(target_y)) ELSE target_y)

\* Map.translate: point is None or a point, nearest a flag or a pair.
MapTranslate(p, m, point, nearest) ==
    LET pt       == IF point = NoPoint THEN Point(PyF(0, 1), PyF(0, 1))
                    ELSE point
        nearx    == nearest.x
        neary    == nearest.y
        target_x == Affine(m.horizontal, pt.x)
        target_y == Affine(m.vertical, pt.y)
    IN  Point(IF nearx THEN PyI(PyIntRound(p, target_x)) ELSE target_x,
              IF neary THEN PyI(PyIntRound(p, target_y)) ELSE target_y)

\* ------------------------------------------------------------- inputs
IntLimits == {PyI(k) : k \in -MaxN .. MaxN}

FloatLimits == {Fl(k, 2) : k \in -MaxF .. MaxF}

IntSteps == {PyI(k) : k \in -MaxStep .. MaxStep}

FloatSteps == {Fl(k, 2) : k \in -MaxF .. MaxF}

\* Constructor arguments ( start, stop, step ), stop possibly omitted.
IntervalArgs ==
    (IntLimits \X (IntLimits \cup {NoneV}) \X IntSteps)
    \cup (FloatLimits \X (FloatLimits \cup {NoneV}) \X FloatSteps)

Values == IntLimits \cup FloatLimits

\* Offsets: integers, the ratios 0.0, 0.5 and 1.0, a negative ratio, and
\* the ratios 0.1 and 0.9 of tests/test_interval.py.
Offsets ==
    {PyI(k) : k \in -MaxOff .. MaxOff} \cup {Fl(k, 2) : k \in -1 .. 2}
        \cup {Fl(1, 10), Fl(9, 10)}

\* The intervals of tests/test_interval.py: Interval( 0, 8, 2 ),
\* Interval( 0, 10 ) and RealInterval( 0, 9 ).
TestIntervals ==
    {IntervalInit(m, FALSE, PyI(0), PyI(8), PyI(2)) :
        m \in {"interval", "cartmap"}}
    \cup {IntervalInit(m, FALSE, PyI(0), PyI(10), PyI(1)) :
              m \in {"interval", "cartmap"}}
    \cup {IntervalInit(m, TRUE, PyI(0), PyI(9), PyI(1)) :
              m \in {"interval", "cartmap"}}

Result(op, arg, val, flag, err) ==
    [op |-> op, arg |-> arg, val |-> val, flag |-> flag, err |-> err]

\* Planes given by two corners, with the default step.
SrcCoords == {PyI(-1), PyI(0), PyI(MaxC)}

TgtCoords == {PyI(0), PyI(MaxT)}

Planes(coords) ==
    {PlaneInit(ArgPair(l, t), ArgPair(r, b), ArgNum(PyI(1))) :
        l \in coords, t \in coords, r \in coords, b \in coords}

\* The planes of tests/test_cartmap.py: sized ( 100, 50 ) and ( 25, 25 ).
TestSource == PlaneInit(ArgPair(PyI(100), PyI(50)), ArgNone, ArgNum(PyI(1)))

TestTarget == PlaneInit(ArgPair(PyI(25), PyI(25)), ArgNone, ArgNum(PyI(1)))

\* The vertical midpoint of a plane: top + deltay / 2.
MidY(p, plane) == Add(top(plane), Div(p, deltay(plane), PyF(2, 1)))

\* Points to translate: none, the corners of the source, a point on its
\* vertical midline, and the point ( 10, 25 ) of the tests.
Points(p, source) ==
    {NoPoint, lefttop(source), rightbot(source),
     Point(left(source), MidY(p, source)), Point(PyI(10), PyI(25))}

Nearests == {NearFlag(FALSE), NearFlag(TRUE),
             NearPair(FALSE, TRUE), NearPair(TRUE, FALSE)}

\* Points for a LinearMap: the limits of its source and one beyond them.
LinearPoints(source) ==
    {source.start, source.stop, Add(source.stop, PyI(1))}

NoResult == Result("none", NoneV, NoneV, FALSE, "")

NoIter == [pc |-> "idle", k |-> 0, n |-> 0, again |-> FALSE]

\* No Map yet.  by names the constructor, args its two lines for a direct
\* construction, fixed the axis held by map_clipped.
NoPlaneMap ==
    [by |-> "none", fixed |-> 0, err |-> "", args |-> <<NoLine, NoLine>>,
     map |-> NoMap]

NoTranslate ==
    [op |-> "none", point |-> NoPoint, nearest |-> NearFlag(FALSE),
     val |-> NoPoint]

NoOverlay == [set |-> FALSE, iv |-> NoneV]

Overlay(i) == [set |-> TRUE, iv |-> i]

\* The fill and clip arguments: None, the interval [0, 1) and the interval
\* [1, 1), whose delta is zero.
Overlays ==
    {NoOverlay,
     Overlay(IntervalInit("cartmap", FALSE, PyI(0), PyI(1), PyI(1))),
     Overlay(IntervalInit("cartmap", FALSE, PyI(1), PyI(1), PyI(1)))}

NoLinearMap ==
    [by |-> "none", err |-> "", fill |-> NoOverlay, clip |-> NoOverlay,
     source |-> NoneV, target |-> NoneV, scale |-> NoLine]

LinearResult(op, point, arg, val, err) ==
    [op |-> op, point |-> point, arg |-> arg, val |-> val, err |-> err]

NoLinearResult == LinearResult("none", NoneV, NoOverlay, NoneV, "")

UnitPlane == PlaneInit(ArgNum(PyI(1)), ArgNone, ArgNum(PyI(1)))

\* Plane( lefttop, rightbot, step ): the object and the arguments it was
\* constructed from.
NewPlane(lt, rb, st) ==
    [lefttop |-> lt, rightbot |-> rb, step |-> st] @@ PlaneInit(lt, rb, st)

\* Coordinates and sizes of planes: integers and a float.
PlaneCoords == {PyI(-1), PyI(0), PyI(MaxC)}

PlaneSizes == {PyI(1), PyI(MaxC), Fl(3, 2)}

\* The step argument: omitted, one number (also zero), or a pair.
PlaneSteps ==
    {ArgNone, ArgNum(PyI(1)), ArgNum(PyI(2)), ArgNum(PyI(0)),
     ArgPair(PyI(2), PyI(1)), ArgPair(PyI(1), Fl(1, 2))}

\* Planes by one size, by a pair of sizes and by two corners, and the plane
\* Plane( ( -10, -5 ), ( 10, 5 ), ( 2, 1 ) ) of tests/test_cartmap.py.
PlaneObjects ==
    {NewPlane(ArgNum(n), ArgNone, st) : n \in PlaneSizes, st \in PlaneSteps}
    \cup {NewPlane(ArgPair(w, h), ArgNone, st) :
              w \in PlaneSizes, h \in PlaneSizes, st \in PlaneSteps}
    \cup {NewPlane(ArgPair(l, t), ArgPair(r, b), st) :
              l \in PlaneCoords, t \in PlaneCoords,
              r \in PlaneCoords, b \in PlaneCoords, st \in PlaneSteps}
    \cup {NewPlane(ArgPair(PyI(-10), PyI(-5)), ArgPair(PyI(10), PyI(5)),
                   ArgPair(PyI(2), PyI(1)))}

\* The attribute names of Plane.__getattr__, and names it does not know.
PlaneNames ==
    {"aspect", "bottom", "b", "delta", "d", "deltax", "dx", "deltay", "dy",
     "dimensions", "dim", "height", "h", "left", "l", "lefttop", "lt",
     "right", "r", "rightbot", "rb", "top", "t", "width", "w"}

OtherNames == {"fakeyfaker", "x", "y", "size", "neg"}

\* The names read on an Interval.
IntervalNames ==
    {"start", "stop", "step", "delta", "neg", "pos", "fakeyfaker", "length"}

\* Intervals to read attributes on: both modules, both classes.
AttrIntervals ==
    {IntervalInit(m, r, PyI(MaxC), PyI(0), PyI(1)) :
        m \in {"interval", "cartmap"}, r \in BOOLEAN}

NoAttr == [op |-> "none", name |-> ""] @@ AttrRaises("")

NoPlane == NewPlane(ArgNum(PyI(1)), ArgNone, ArgNone)

\* ------------------------------------------------------------- actions
Init ==
    /\ py \in {2, 3}
    /\ iv \in {IntervalInit(m, r, a[1], a[2], a[3]) :
                 m \in {"interval", "cartmap"}, r \in BOOLEAN,
                 a \in IntervalArgs} \cup TestIntervals
    /\ res = NoResult
    /\ it = NoIter
    /\ out = <<>>
    /\ prev = <<>>
    /\ src = UnitPlane
    /\ tgt = UnitPlane
    /\ pmap = NoPlaneMap
    /\ mres = NoTranslate
    /\ lmap = NoLinearMap
    /\ lres = NoLinearResult
    /\ thePlane = NoPlane
    /\ pres = NoAttr

\* The operations of an interval write none of its fields and share no
\* other state, so a behaviour makes one call on the interval, or iterates
\* it any number of times.
Fresh == res.op = "none" /\ it.pc = "idle"

\* len( iv )
CallLen ==
    /\ Fresh
    /\ res' = IF StepIsZero(iv)
              THEN Result("len", NoneV, NoneV, FALSE, "ZeroDivisionError")
              ELSE Result("len", NoneV, PyI(Length(py, iv)), FALSE, "")
    /\ UNCHANGED <<pvars, py, iv, it, out, prev, mvars>>

\* value in iv (hzgfx.interval defines __contains__)
CallContains ==
    /\ Fresh
    /\ iv.mod = "interval"
    /\ \E value \in Values :
          res' = Result("contains", value, NoneV, Contains(iv, value), "")
    /\ UNCHANGED <<pvars, py, iv, it, out, prev, mvars>>

\* iv[ offset ]
CallGetItem ==
    /\ Fresh
    /\ \E offset \in Offsets :
          res' = IF StepIsZero(iv)
                 THEN Result("getitem", offset, NoneV, FALSE,
                             "ZeroDivisionError")
                 ELSE Result("getitem", offset, GetItem(py, iv, offset),
                             FALSE, "")
    /\ UNCHANGED <<pvars, py, iv, it, out, prev, mvars>>

\* iv.getpos( value ) (hzgfx.interval)
CallGetPos ==
    /\ Fresh
    /\ iv.mod = "interval"
    /\ \E value \in Values :
          res' = IF ~Contains(iv, value)
                 THEN Result("getpos", value, NoneV, FALSE, "ValueError")
                 ELSE IF StepIsZero(iv)
                 THEN Result("getpos", value, NoneV, FALSE,
                             "ZeroDivisionError")
                 ELSE Result("getpos", value, PyI(GetPos(py, iv, value)),
                             FALSE, "")
    /\ UNCHANGED <<pvars, py, iv, it, out, prev, mvars>>

\* iv == other: the classes define no __eq__ (nor __ne__, __cmp__ or
\* __hash__), so the comparison is object's, which is true of an object and
\* itself only.  other.same says that other is the object iv.
ObjectEq(other) == other.same

\* The objects iv is compared with: itself, a second object constructed
\* with the same arguments, and objects differing in one argument.
Others(i) ==
    {[same |-> TRUE, iv |-> i], [same |-> FALSE, iv |-> i],
     [same |-> FALSE, iv |-> [i EXCEPT !.start = Add(@, PyI(1))]],
     [same |-> FALSE, iv |-> [i EXCEPT !.stop = Add(@, PyI(1))]],
     [same |-> FALSE, iv |-> [i EXCEPT !.step = Add(@, PyI(1))]]}

CallEq ==
    /\ Fresh
    /\ \E other \in Others(iv) :
          res' = Result("eq", other, NoneV, ObjectEq(other), "")
    /\ UNCHANGED <<pvars, py, iv, it, out, prev, mvars>>

\* iter( iv ): a new generator; nothing of __iter__ has run yet.
IterStart ==
    /\ res.op = "none"
    /\ it.pc \in {"idle", "done", "raised"}
    /\ it' = [pc |-> "new", k |-> 0, n |-> 0,
              again |-> it.again \/ it.pc = "done"]
    /\ out' = <<>>
    /\ prev' = IF it.pc = "done" THEN out ELSE prev
    /\ UNCHANGED <<pvars, py, iv, res, mvars>>

\* next( generator ): the first call evaluates len( self ) for the range,
\* and every call yields the next value or ends the generator.
IterNext ==
    /\ it.pc \in {"new", "run"}
    /\ IF it.pc = "new" /\ StepIsZero(iv)
       THEN /\ it' = [it EXCEPT !.pc = "raised"]
            /\ out' = out
       ELSE LET n == IF it.pc = "new" THEN Length(py, iv) ELSE it.n
            IN  IF it.k < n
                THEN /\ it' = [it EXCEPT !.pc = "run", !.n = n, !.k = it.k + 1]
                     /\ out' = Append(out, IterValue(iv, n, it.k))
                ELSE /\ it' = [it EXCEPT !.pc = "done", !.n = n]
                     /\ out' = out
    /\ UNCHANGED <<pvars, py, iv, res, prev, mvars>>

Next ==
    \/ CallLen
    \/ CallContains
    \/ CallGetItem
    \/ CallGetPos
    \/ CallEq
    \/ IterStart
    \/ IterNext

Spec == Init /\ [][Next]_vars

\* ------------------------------------------------------------- maps
InitMap ==
    /\ py \in {2, 3}
    /\ \/ src \in Planes(SrcCoords) /\ tgt \in Planes(TgtCoords)
       \/ src \in Planes(SrcCoords) /\ tgt = src
       \/ src = TestSource /\ tgt = TestTarget
    /\ pmap = NoPlaneMap
    /\ mres = NoTranslate
    /\ lmap = NoLinearMap
    /\ lres = NoLinearResult
    /\ iv = UnitPlane.x
    /\ res = NoResult
    /\ it = NoIter
    /\ out = <<>>
    /\ prev = <<>>
    /\ thePlane = NoPlane
    /\ pres = NoAttr

\* The maps are built once from the two planes: a behaviour builds one Map
\* or one LinearMap and translates one point through it.
NoMapYet == pmap.by = "none" /\ lmap.by = "none"

\* Map.map_extremes( src, tgt )
CallMapExtremes ==
    /\ NoMapYet
    /\ pmap' = IF MapExtremesRaises(src)
               THEN [NoPlaneMap EXCEPT !.by = "map_extremes",
                                       !.err = "ZeroDivisionError"]
               ELSE [NoPlaneMap EXCEPT !.by = "map_extremes",
                                       !.map = MapExtremes(py, src, tgt)]
    /\ UNCHANGED <<pvars, py, ivars, src, tgt, mres, lmap, lres>>

\* Map.map_clipped( src, tgt, fixed )
CallMapClipped ==
    /\ NoMapYet
    /\ \E fixed \in {AXIS_HORIZONTAL, AXIS_VERTICAL} :
          pmap' = IF MapClippedRaises(src, fixed)
                  THEN [NoPlaneMap EXCEPT !.by = "map_clipped",
                                          !.fixed = fixed,
                                          !.err = "ZeroDivisionError"]
                  ELSE [NoPlaneMap EXCEPT
                            !.by = "map_clipped", !.fixed = fixed,
                            !.map = MapClipped(py, src, tgt, fixed)]
    /\ UNCHANGED <<pvars, py, ivars, src, tgt, mres, lmap, lres>>

\* pmap.translate( point, nearest )
CallMapTranslate ==
    /\ pmap.map # NoMap
    /\ mres.op = "none"
    /\ \E point \in Points(py, src), nearest \in Nearests :
          mres' = [op |-> "translate", point |-> point, nearest |-> nearest,
                   val |-> MapTranslate(py, pmap.map, point, nearest)]
    /\ UNCHANGED <<pvars, py, ivars, src, tgt, pmap, lmap, lres>>

\* LinearMap( source, target, fill, clip ) on the horizontal or the
\* vertical axes of the two planes; a zero source delta raises
\* ZeroDivisionError after the source and the target are stored and before
\* the coefficients are.  lmap.fill and lmap.clip are the arguments of the
\* call.
NewLinearMap ==
    /\ NoMapYet
    /\ \E axis \in {"x", "y"}, fill \in Overlays, clip \in Overlays :
          LET source == src[axis]
              target == tgt[axis]
          IN  lmap' = IF delta(source).n = 0
                      THEN [by |-> "init", err |-> "ZeroDivisionError",
                            fill |-> fill, clip |-> clip,
                            source |-> source, target |-> target,
                            scale |-> NoLine]
                      ELSE [by |-> "init", err |-> "",
                            fill |-> fill, clip |-> clip]
                           @@ LinearMapInit(py, source, target, fill, clip)
    /\ UNCHANGED <<pvars, py, ivars, src, tgt, pmap, mres, lres>>

\* lmap.translate( point )
CallLinearMapTranslate ==
    /\ lmap.by = "init" /\ lmap.err = ""
    /\ lres.op = "none"
    /\ \E point \in LinearPoints(lmap.source) :
          lres' = LinearResult("translate", point, NoOverlay,
                               LinearMapTranslate(lmap, point), "")
    /\ UNCHANGED <<pvars, py, ivars, src, tgt, pmap, mres, lmap>>

\* lmap[ point ]
CallLinearMapGetItem ==
    /\ lmap.by = "init" /\ lmap.err = ""
    /\ lres.op = "none"
    /\ \E point \in LinearPoints(lmap.source) :
          lres' = LinearResult("getitem", point, NoOverlay,
                               LinearMapGetItem(lmap, point), "")
    /\ UNCHANGED <<pvars, py, ivars, src, tgt, pmap, mres, lmap>>

\* lmap.set_clip( clip ), lmap.set_fill( fill ): LinearMap defines neither
\* method and no __getattr__, so the attribute lookup raises AttributeError
\* before anything is called, and the map is as it was.
CallSetClip ==
    /\ lmap.by = "init" /\ lmap.err = ""
    /\ lres.op = "none"
    /\ \E clip \in Overlays :
          lres' = LinearResult("set_clip", NoneV, clip, NoneV,
                               "AttributeError")
    /\ UNCHANGED <<pvars, py, ivars, src, tgt, pmap, mres, lmap>>

CallSetFill ==
    /\ lmap.by = "init" /\ lmap.err = ""
    /\ lres.op = "none"
    /\ \E fill \in Overlays :
          lres' = LinearResult("set_fill", NoneV, fill, NoneV,
                               "AttributeError")
    /\ UNCHANGED <<pvars, py, ivars, src, tgt, pmap, mres, lmap>>

NextMap ==
    \/ CallMapExtremes
    \/ CallMapClipped
    \/ CallMapTranslate
    \/ NewLinearMap
    \/ CallLinearMapTranslate
    \/ CallLinearMapGetItem
    \/ CallSetClip
    \/ CallSetFill

SpecMap == InitMap /\ [][NextMap]_vars

\* ------------------------------------------------------------- planes
InitPlane ==
    /\ py \in {2, 3}
    /\ \/ thePlane \in PlaneObjects /\ iv = UnitPlane.x
       \/ thePlane = NoPlane /\ iv \in AttrIntervals
    /\ pres = NoAttr
    /\ res = NoResult
    /\ it = NoIter
    /\ out = <<>>
    /\ prev = <<>>
    /\ src = UnitPlane
    /\ tgt = UnitPlane
    /\ pmap = NoPlaneMap
    /\ mres = NoTranslate
    /\ lmap = NoLinearMap
    /\ lres = NoLinearResult

\* thePlane.<name>: an attribute read writes nothing, so a behaviour makes one.
CallPlaneGetAttr ==
    /\ pres.op = "none"
    /\ \E name \in PlaneNames \cup OtherNames :
          pres' = [op |-> "plane", name |-> name]
                      @@ PlaneGetAttr(py, thePlane, name)
    /\ UNCHANGED <<thePlane, py, ivars, mvars>>

\* iv.<name>
CallIntervalGetAttr ==
    /\ pres.op = "none"
    /\ \E name \in IntervalNames :
          pres' = [op |-> "interval", name |-> name]
                      @@ IntervalGetAttr(iv, name)
    /\ UNCHANGED <<thePlane, py, ivars, mvars>>

NextPlane ==
    \/ CallPlaneGetAttr
    \/ CallIntervalGetAttr

SpecPlane == InitPlane /\ [][NextPlane]_vars

\* ------------------------------------------------------------- constructors
\* The ( slope, intercept ) arguments of Map(): None, the pairs of the unit
\* test, and a pair of integers.
MapLines ==
    {NoLine, Line(PyF(1, 1), PyF(10, 1)), Line(PyF(-1, 1), PyF(0, 1)),
     Line(PyI(2), PyI(1))}

\* The numbers given to interval() and the ways of giving them.
FactoryNumbers == {PyI(1), PyI(2), PyI(8), PyF(2, 1), PyF(8, 1), Fl(1, 5)}

FactoryArgs ==
    {[kind |-> "none", vals |-> <<>>], [kind |-> "nums", vals |-> <<>>]}
    \cup {[kind |-> k, vals |-> <<a>>] :
             k \in {"nums", "seq"}, a \in FactoryNumbers}
    \cup {[kind |-> k, vals |-> <<a, b>>] :
             k \in {"nums", "seq"}, a \in FactoryNumbers,
             b \in FactoryNumbers}
    \cup {[kind |-> k, vals |-> <<a, b, c>>] :
             k \in {"nums", "seq"}, a \in FactoryNumbers,
             b \in FactoryNumbers, c \in FactoryNumbers}

InitMake ==
    /\ py \in {2, 3}
    /\ src = TestSource
    /\ tgt = TestTarget
    /\ pmap = NoPlaneMap
    /\ mres = NoTranslate
    /\ lmap = NoLinearMap
    /\ lres = NoLinearResult
    /\ iv = UnitPlane.x
    /\ res = NoResult
    /\ it = NoIter
    /\ out = <<>>
    /\ prev = <<>>
    /\ thePlane = NoPlane
    /\ pres = NoAttr

\* A behaviour constructs one object.
NothingMade == NoMapYet /\ res.op = "none"

\* Map( horizontal, vertical )
NewMap ==
    /\ NothingMade
    /\ \E horizontal \in MapLines, vertical \in MapLines :
          pmap' = [NoPlaneMap EXCEPT !.by = "init",
                                    !.args = <<horizontal, vertical>>,
                                    !.map = MapInit(horizontal, vertical)]
    /\ UNCHANGED <<pvars, py, ivars, src, tgt, mres, lmap, lres>>

\* iv = interval( *args ); res keeps the arguments of the call.
CallInterval ==
    /\ NothingMade
    /\ \E args \in FactoryArgs :
          /\ iv' = interval(args)
          /\ res' = Result("interval", args, NoneV, FALSE, "")
    /\ UNCHANGED <<pvars, py, mvars, it, out, prev>>

NextMake ==
    \/ NewMap
    \/ CallInterval
    \/ CallMapTranslate

SpecMake == InitMake /\ [][NextMake]_vars

\* ------------------------------------------------------------- claims
\* Exact arithmetic on the values of numbers, as <<numerator, denominator>>
\* with a positive denominator, for stating what a result should be.
QSub(x, y) == <<x.n * y.d - y.n * x.d, x.d * y.d>>

QAdd(q, y) == <<q[1] * y.d + y.n * q[2], q[2] * y.d>>

\* q / y for y # 0.
QDiv(q, y) == <<Sign(y.n) * q[1] * y.d, q[2] * Abs(y.n)>>

\* floor( |q| )
QFloorAbs(q) == Abs(q[1]) \div q[2]

\* r is an integer nearest to q.
QNearest(r, q) == 2 * Abs(r * q[2] - q[1]) <= q[2]

\* The exact value of a number, and exact |q|, q1 + q2, q1 * q2, q1 / q2.
Q(x) == <<x.n, x.d>>

QAbs(q) == <<Abs(q[1]), q[2]>>

QPlus(q1, q2) == <<q1[1] * q2[2] + q2[1] * q1[2], q1[2] * q2[2]>>

QTimes(q1, q2) == <<q1[1] * q2[1], q1[2] * q2[2]>>

QOver(q1, q2) == <<Sign(q2[1]) * q1[1] * q2[2], q1[2] * Abs(q2[1])>>

\* x and y differ by rounding only: |x - y| <= 2^(k - Prec) * m, for a
\* magnitude m >= 0 of the operands and a count 2^k of roundings, 2^-Prec
\* being the largest relative error of one rounded operation.
Close(x, y, k, m) ==
    Abs(x.n * y.d - y.n * x.d) * Pow2(Prec - k) * m[2]
        <= m[1] * x.d * y.d

IntOffset == res.op = "getitem" /\ res.err = "" /\ ~IsFloat(res.arg)

\* The offset the claims evaluate: a negative one has the length added once.
Normalized(o) == IF o < 0 THEN o + Length(py, iv) ELSE o

C2_LengthLaw ==
    (res.op = "len" /\ ~StepIsZero(iv)) =>
        /\ res.err = ""
        /\ res.val.t = "int" /\ res.val.n >= 0
        /\ LET d == QSub(iv.stop, iv.start)
           IN  res.val.n = IF iv.real
                           THEN QFloorAbs(QDiv(QAdd(d, iv.step), iv.step))
                           ELSE QFloorAbs(QDiv(d, iv.step))

\* C3: value in iv, for an Interval, is true exactly when
\* start <= value < stop if start < stop and exactly when
\* stop < value <= start if start > stop; for a RealInterval both bounds
\* are included in either direction.
C3_Contains ==
    res.op = "contains" =>
        LET v == res.arg
        IN  /\ (~iv.real /\ Lt(iv.start, iv.stop)) =>
                   (res.flag <=> (Le(iv.start, v) /\ Lt(v, iv.stop)))
            /\ (~iv.real /\ Lt(iv.stop, iv.start)) =>
                   (res.flag <=> (Lt(iv.stop, v) /\ Le(v, iv.start)))
            /\ (iv.real /\ Le(iv.start, iv.stop)) =>
                   (res.flag <=> (Le(iv.start, v) /\ Le(v, iv.stop)))
            /\ (iv.real /\ Lt(iv.stop, iv.start)) =>
                   (res.flag <=> (Le(iv.stop, v) /\ Le(v, iv.start)))

\* C3 witness: on an Interval with start > stop, the start is contained.
C3_Witness ==
    /\ res.op = "contains" /\ ~iv.real /\ Lt(iv.stop, iv.start)
    /\ Eq(res.arg, iv.start) /\ res.flag

\* C4: iterating an interval with start <= stop (and a nonzero step) yields
\* exactly len( iv ) values, the k-th being start + step * k, then ends; a
\* second iteration of the same interval yields the identical sequence.
C4_Iteration ==
    (Le(iv.start, iv.stop) /\ ~StepIsZero(iv) /\ it.pc \in {"run", "done"}) =>
        /\ Len(out) = it.k /\ it.k <= Length(py, iv)
        /\ \A j \in 1 .. Len(out) :
              out[j] = Add(iv.start, Mul(iv.step, PyI(j - 1)))
        /\ it.pc = "done" => Len(out) = Length(py, iv)
        /\ (it.pc = "done" /\ it.again) => out = prev

\* C4 witness: a second iteration of an interval with start <= stop has
\* ended after three or more values.
C4_Witness ==
    /\ Le(iv.start, iv.stop) /\ it.pc = "done" /\ it.again
    /\ Len(out) >= 3

\* C5: iv.getpos( value ), for a nonzero step, returns the integer nearest
\* to (value - start) / step when value is in iv, and raises ValueError,
\* returning no position, when it is not.
C5_PositionOf ==
    (res.op = "getpos" /\ ~StepIsZero(iv)) =>
        IF Contains(iv, res.arg)
        THEN /\ res.err = ""
             /\ res.val.t = "int"
             /\ QNearest(res.val.n, QDiv(QSub(res.arg, iv.start), iv.step))
        ELSE res.err = "ValueError" /\ res.val = NoneV

\* A point was translated through the LinearMap.
Translated == lres.op \in {"translate", "getitem"}

\* The coefficients C6 states for a LinearMap, and the map is usable.
LinearFit ==
    LET a == Div(py, delta(lmap.target), ToFloat(delta(lmap.source)))
    IN  /\ lmap.scale.a = a
        /\ lmap.scale.b = Sub(lmap.target.start, Mul(a, lmap.source.start))

\* The magnitude of the operands of translate( point ):
\* |target.delta / source.delta| * (|point| + |source.start|) + |target.start|.
LinearMagnitude(point) ==
    QPlus(QTimes(QAbs(QOver(QSub(lmap.target.stop, lmap.target.start),
                            QSub(lmap.source.stop, lmap.source.start))),
                 QPlus(QAbs(Q(point)), QAbs(Q(lmap.source.start)))),
          QAbs(Q(lmap.target.start)))

\* C6 (as stated): a LinearMap has a = target.delta / source.delta and
\* b = target.start - a * source.start, translate( x ) and map[ x ] return
\* a * x + b, also outside the source, and therefore
\* translate( source.start ) == target.start and
\* translate( source.stop ) == target.stop.
C6_LinearMapExact ==
    (lmap.by = "init" /\ lmap.err = "") =>
        /\ LinearFit
        /\ Translated =>
              /\ lres.val = Affine(lmap.scale, lres.point)
              /\ lres.point = lmap.source.start =>
                    Eq(lres.val, lmap.target.start)
              /\ lres.point = lmap.source.stop =>
                    Eq(lres.val, lmap.target.stop)

\* C6 (amended): a LinearMap has the float coefficients
\* a = target.delta / source.delta and b = target.start - a * source.start,
\* translate( x ) and map[ x ] return the float a * x + b, also outside the
\* source, and translate( source.start ) and translate( source.stop ) are
\* target.start and target.stop up to the rounding of the float operations:
\* within 2^(3 - p) * (|a| * (|x| + |source.start|) + |target.start|) for
\* floats of p significant bits.
C6_LinearMap ==
    (lmap.by = "init" /\ lmap.err = "") =>
        /\ LinearFit
        /\ Translated =>
              /\ lres.val = Affine(lmap.scale, lres.point)
              /\ lres.point = lmap.source.start =>
                    Close(lres.val, lmap.target.start, 3,
                          LinearMagnitude(lres.point))
              /\ lres.point = lmap.source.stop =>
                    Close(lres.val, lmap.target.stop, 3,
                          LinearMagnitude(lres.point))

\* C6 witness: map[ source.stop ] through a slope that is no float (a
\* third), on a source that does not start at zero.
C6_Witness ==
    /\ lmap.by = "init" /\ lmap.err = ""
    /\ lres.op = "getitem" /\ lres.point = lmap.source.stop
    /\ lmap.source.start.n # 0
    /\ Abs(delta(lmap.source).n) = 3 /\ Abs(delta(lmap.target).n) = 1

\* |x - t| is within the rounding of a translation through the line a * x
\* + b of a source starting at s: see C6.
CloseThrough(x, t, a, point, s, t0) ==
    Close(x, t, 3, QPlus(QTimes(QAbs(a), QPlus(QAbs(Q(point)), QAbs(Q(s)))),
                         QAbs(Q(t0))))

\* C7: map_extremes( source, target ), for nonzero source deltas, computes
\* for each axis slope = target delta / source delta and intercept = target
\* start - slope * source start of that axis, so that the Map translates
\* source.lefttop to target.lefttop and source.rightbot to target.rightbot
\* (here: up to the rounding of the float operations).
C7_MapExtremes ==
    (pmap.by = "map_extremes" /\ pmap.err = "") =>
        LET xslope == Div(py, deltax(tgt), ToFloat(deltax(src)))
            yslope == Div(py, deltay(tgt), ToFloat(deltay(src)))
            ax     == QOver(QSub(right(tgt), left(tgt)),
                            QSub(right(src), left(src)))
            ay     == QOver(QSub(bottom(tgt), top(tgt)),
                            QSub(bottom(src), top(src)))
            corner == IF mres.point = lefttop(src) THEN lefttop(tgt)
                      ELSE rightbot(tgt)
        IN  /\ pmap.map.horizontal =
                   Line(xslope, Sub(left(tgt), Mul(xslope, left(src))))
            /\ pmap.map.vertical =
                   Line(yslope, Sub(top(tgt), Mul(yslope, top(src))))
            /\ (/\ mres.op = "translate"
                /\ mres.point \in {lefttop(src), rightbot(src)}
                /\ mres.nearest = NearFlag(FALSE)) =>
                   /\ CloseThrough(mres.val.x, corner.x, ax, mres.point.x,
                                   left(src), left(tgt))
                   /\ CloseThrough(mres.val.y, corner.y, ay, mres.point.y,
                                   top(src), top(tgt))

\* A Map returned by map_clipped with the horizontal axis fixed.
ClippedH ==
    pmap.by = "map_clipped" /\ pmap.fixed = AXIS_HORIZONTAL /\ pmap.err = ""

\* The point on the vertical midline of the source was translated unrounded.
MidTranslated ==
    /\ mres.op = "translate"
    /\ mres.point = Point(left(src), MidY(py, src))
    /\ ~mres.nearest.y

\* C8 (as stated): map_clipped( source, target ) with the horizontal axis
\* fixed yields the horizontal line of map_extremes( source, target ), a
\* vertical slope equal to the horizontal slope, and translates the
\* vertical midpoint of the source to the vertical midpoint of the target.
C8_MapClippedExact ==
    ClippedH =>
        /\ pmap.map.horizontal = MapExtremes(py, src, tgt).horizontal
        /\ Eq(pmap.map.vertical.a, pmap.map.horizontal.a)
        /\ MidTranslated => Eq(mres.val.y, MidY(py, tgt))

\* The magnitude of the operands of the midpoint's translation:
\* |target.top| + |target.deltay| + |theight|
\*     + |slope| * (|source.top| + |midpoint|),
\* with slope = target.deltax / source.deltax, theight = source.deltay * slope.
ClipMagnitude ==
    LET a == QOver(QSub(right(tgt), left(tgt)), QSub(right(src), left(src)))
        h == QTimes(QSub(bottom(src), top(src)), a)
    IN  QPlus(QPlus(QAbs(Q(top(tgt))), QAbs(QSub(bottom(tgt), top(tgt)))),
              QPlus(QAbs(h),
                    QTimes(QAbs(a), QPlus(QAbs(Q(top(src))),
                                          QAbs(Q(MidY(py, src)))))))

\* C8 (amended): map_clipped( source, target ) with the horizontal axis
\* fixed yields the horizontal line of map_extremes( source, target ); its
\* vertical slope equals the horizontal slope, and the vertical midpoint of
\* the source is translated to the vertical midpoint of the target, up to
\* the rounding of the float operations: the slopes within 2^(3 - p) times
\* the slope and the midpoint within 2^(4 - p) times the magnitude of the
\* operands, for floats of p significant bits.
C8_MapClipped ==
    ClippedH =>
        /\ pmap.map.horizontal = MapExtremes(py, src, tgt).horizontal
        /\ Close(pmap.map.vertical.a, pmap.map.horizontal.a, 3,
                 QAbs(QOver(QSub(right(tgt), left(tgt)),
                            QSub(right(src), left(src)))))
        /\ MidTranslated => Close(mres.val.y, MidY(py, tgt), 4, ClipMagnitude)

\* C8 witness: the midpoint translated through a clipped map whose slope
\* is no float (a third), between planes with nonzero tops.
C8_Witness ==
    /\ ClippedH /\ MidTranslated
    /\ Abs(deltax(src).n) = 3 /\ deltax(tgt).n # 0 /\ deltay(tgt).n # 0
    /\ top(src).n # 0 /\ top(tgt).n # 0

\* The Map that was built from src and tgt.
BuiltMap ==
    IF pmap.by = "map_extremes" THEN MapExtremes(py, src, tgt)
    ELSE MapClipped(py, src, tgt, pmap.fixed)

\* C9: translate( point, nearest ) returns ( a_h*x + b_h, a_v*y + b_v ),
\* with ( 0, 0 ) for an omitted point, so then ( b_h, b_v ); an axis whose
\* nearest flag is true (the flag for both axes, or that axis's flag of a
\* pair) is returned as the integer nearest to its affine result, an axis
\* whose flag is false unrounded; the Map's lines are not changed.
C9_Translate ==
    mres.op = "translate" =>
        LET m  == pmap.map
            pt == IF mres.point = NoPoint THEN Point(PyF(0, 1), PyF(0, 1))
                  ELSE mres.point
            x  == Affine(m.horizontal, pt.x)
            y  == Affine(m.vertical, pt.y)
        IN  /\ IF mres.nearest.x
               THEN mres.val.x.t = "int" /\ QNearest(mres.val.x.n, Q(x))
               ELSE mres.val.x = x
            /\ IF mres.nearest.y
               THEN mres.val.y.t = "int" /\ QNearest(mres.val.y.n, Q(y))
               ELSE mres.val.y = y
            /\ (mres.point = NoPoint /\ ~mres.nearest.x) =>
                   Eq(mres.val.x, m.horizontal.b)
            /\ (mres.point = NoPoint /\ ~mres.nearest.y) =>
                   Eq(mres.val.y, m.vertical.b)
            /\ m = BuiltMap

\* C9 witness: nearest = ( False, True ) on a point whose vertical result
\* is no integer and whose horizontal result is no integer either.
C9_Witness ==
    /\ mres.op = "translate"
    /\ mres.nearest = NearPair(FALSE, TRUE)
    /\ mres.val.x.d > 1
    /\ Affine(pmap.map.vertical, mres.point.y).d > 1
    /\ mres.val.y.t = "int"

\* C10: for the source Plane sized ( 100, 50 ) and the target Plane sized
\* ( 25, 25 ), map_clipped yields the lines ( 0.25, 0.0 ) and ( 0.25, 6.25 );
\* translate() is ( 0.0, 6.25 ), translate( ( 10, 25 ) ) is ( 2.5, 12.5 ),
\* with nearest = True it is ( 3, 13 ) and with nearest = ( False, True )
\* it is ( 2.5, 13 ).
C10_ClipScenario ==
    (src = TestSource /\ tgt = TestTarget /\ ClippedH) =>
        /\ Eq(pmap.map.horizontal.a, PyF(1, 4))
        /\ Eq(pmap.map.horizontal.b, PyF(0, 1))
        /\ Eq(pmap.map.vertical.a, PyF(1, 4))
        /\ Eq(pmap.map.vertical.b, PyF(25, 4))
        /\ (mres.op = "translate" /\ mres.nearest = NearFlag(FALSE)) =>
              /\ mres.point = NoPoint =>
                    Eq(mres.val.x, PyF(0, 1)) /\ Eq(mres.val.y, PyF(25, 4))
              /\ mres.point = Point(PyI(10), PyI(25)) =>
                    Eq(mres.val.x, PyF(5, 2)) /\ Eq(mres.val.y, PyF(25, 2))
        /\ (/\ mres.op = "translate"
            /\ mres.point = Point(PyI(10), PyI(25))
            /\ mres.nearest = NearFlag(TRUE)) =>
              Eq(mres.val.x, PyI(3)) /\ Eq(mres.val.y, PyI(13))
        /\ (/\ mres.op = "translate"
            /\ mres.point = Point(PyI(10), PyI(25))
            /\ mres.nearest = NearPair(FALSE, TRUE)) =>
              Eq(mres.val.x, PyF(5, 2)) /\ Eq(mres.val.y, PyI(13))

\* C11: for a Plane P with nonzero deltas on both axes, whatever its corners
\* (its top may differ from its left), map_extremes( P, P ) translates every
\* point of P to that same point; an axis translated with a nearest flag is
\* the integer nearest to the point's coordinate.
C11_RoundTrip ==
    (/\ pmap.by = "map_extremes" /\ pmap.err = "" /\ tgt = src
     /\ mres.op = "translate" /\ mres.point # NoPoint) =>
        /\ IF mres.nearest.x
           THEN QNearest(mres.val.x.n, Q(mres.point.x))
           ELSE Eq(mres.val.x, mres.point.x)
        /\ IF mres.nearest.y
           THEN QNearest(mres.val.y.n, Q(mres.point.y))
           ELSE Eq(mres.val.y, mres.point.y)

\* C11 witness: a point on the vertical midline of a plane whose top
\* differs from its left, with a coordinate that is no integer, came back
\* unchanged from map_extremes( P, P ).
C11_Witness ==
    /\ pmap.by = "map_extremes" /\ pmap.err = "" /\ tgt = src
    /\ ~Eq(top(src), left(src))
    /\ mres.op = "translate" /\ mres.nearest = NearFlag(FALSE)
    /\ mres.point = Point(left(src), MidY(py, src))
    /\ mres.point.y.d > 1
    /\ mres.val = Point(ToFloat(mres.point.x), mres.point.y)

\* The fill and the clip a LinearMap has according to C12 and C14: those
\* given to the constructor, replaced by the argument of a later set_fill or
\* set_clip; and the intervals the fit is then to be taken on.
CurrentFill == IF lres.op = "set_fill" THEN lres.arg ELSE lmap.fill

CurrentClip == IF lres.op = "set_clip" THEN lres.arg ELSE lmap.clip

FitSource == IF CurrentFill.set THEN CurrentFill.iv ELSE lmap.source

FitTarget == IF CurrentClip.set THEN CurrentClip.iv ELSE lmap.target

\* The line a = t.delta / s.delta, b = t.start - a * s.start.
FitOf(s, t) ==
    LET a == Div(py, delta(t), ToFloat(delta(s)))
    IN  Line(a, Sub(t.start, Mul(a, s.start)))

\* C12: whenever a LinearMap can be read, after its construction with
\* optional fill and clip and after set_clip / set_fill calls, its
\* coefficients are the fit a = dy / dx, b = ty - a * sx, with ( sx, dx )
\* the start and delta of the fill if one is set and of the source
\* otherwise, and ( ty, dy ) those of the clip if one is set and of the
\* target otherwise.
C12_Coefficients ==
    (lmap.by = "init" /\ lmap.err = "" /\ delta(FitSource).n # 0) =>
        lmap.scale = FitOf(FitSource, FitTarget)

\* C13: constructing a LinearMap whose source or whose target has a zero
\* delta fails with an error, before a coefficient is computed, and leaves
\* no readable object.
C13_DegenerateRejected ==
    (/\ lmap.by = "init"
     /\ (delta(lmap.source).n = 0 \/ delta(lmap.target).n = 0)) =>
        lmap.err # "" /\ lmap.scale = NoLine

\* C14: set_clip / set_fill with an interval of zero delta raises an error
\* and leaves the coefficients as they were; with None or an interval of
\* nonzero delta it succeeds, and the coefficients are then the fit on the
\* overlays now set, and on the source / target where none is.
C14_OverlayAtomic ==
    lres.op \in {"set_clip", "set_fill"} =>
        IF lres.arg.set /\ delta(lres.arg.iv).n = 0
        THEN /\ lres.err # ""
             /\ lmap.scale = LinearMapInit(py, lmap.source, lmap.target,
                                           lmap.fill, lmap.clip).scale
        ELSE /\ lres.err = ""
             /\ delta(FitSource).n # 0 =>
                    lmap.scale = FitOf(FitSource, FitTarget)

\* C15: iterating an Interval with start > stop, for any nonzero step,
\* yields len( iv ) values in strictly decreasing order, the first of them
\* the start, and every one of them is in the interval (the membership
\* test of hzgfx.interval); the order is never ascending.
C15_NegativeDirection ==
    (/\ ~iv.real /\ Lt(iv.stop, iv.start) /\ ~StepIsZero(iv)
     /\ it.pc \in {"run", "done"}) =>
        /\ Len(out) <= Length(py, iv)
        /\ it.pc = "done" => Len(out) = Length(py, iv)
        /\ Len(out) >= 1 => Eq(out[1], iv.start)
        /\ \A j \in 1 .. Len(out) - 1 : Lt(out[j + 1], out[j])
        /\ iv.mod = "interval" =>
               \A j \in 1 .. Len(out) : IntervalContains(iv, out[j])

\* The start of the walk of iv[ offset ]: the stop for an interval of
\* hzgfx.interval with start > stop, the start for every other interval.
Base ==
    IF iv.mod = "interval" /\ Lt(iv.stop, iv.start) THEN iv.stop ELSE iv.start

\* iv is the Interval( start, stop, step ) of integers, of either module.
IsInterval(real, start, stop, step) ==
    /\ iv.real = real
    /\ iv.start = PyI(start) /\ iv.stop = PyI(stop) /\ iv.step = PyI(step)

\* C16 (as stated): iv[ offset ] for any integer offset, inside or outside
\* 0 .. length - 1, is start + step * offset exactly, with no clamping; for
\* Interval( 0, 8, 2 ), iv[ -1 ] == -2 and iv[ 5 ] == 10.
C16_ExtrapolationFromZero ==
    IntOffset =>
        /\ res.val = Add(iv.start, Mul(iv.step, res.arg))
        /\ (IsInterval(FALSE, 0, 8, 2) /\ res.arg.n = -1) => res.val = PyI(-2)
        /\ (IsInterval(FALSE, 0, 8, 2) /\ res.arg.n = 5) => res.val = PyI(10)

\* C16 (amended): iv[ offset ] is never clamped: for an integer offset >= 0,
\* inside or beyond the length, it is base + step * offset exactly, and for
\* an integer offset < 0, also below -length, it is
\* base + step * (offset + length), the base being the start (the stop for
\* an interval of hzgfx.interval with start > stop); for
\* Interval( 0, 8, 2 ), iv[ 5 ] == 10, iv[ -1 ] == 6 and iv[ -5 ] == -2.
C16_Extrapolation ==
    IntOffset =>
        LET o == res.arg.n
            n == Length(py, iv)
        IN  /\ o >= 0 => res.val = Add(Base, Mul(iv.step, PyI(o)))
            /\ o < 0 => res.val = Add(Base, Mul(iv.step, PyI(o + n)))
            /\ (IsInterval(FALSE, 0, 8, 2) /\ o = 5) => res.val = PyI(10)
            /\ (IsInterval(FALSE, 0, 8, 2) /\ o = -1) => res.val = PyI(6)
            /\ (IsInterval(FALSE, 0, 8, 2) /\ o = -5) => res.val = PyI(-2)

\* C16 witness: Interval( 0, 8, 2 )[ -5 ] went below the start, to -2.
C16_Witness ==
    /\ IntOffset /\ IsInterval(FALSE, 0, 8, 2)
    /\ res.arg.n = -5 /\ res.val = PyI(-2)

\* A ratio was given to iv[ offset ].
RatioOffset == res.op = "getitem" /\ res.err = "" /\ IsFloat(res.arg)

\* trunc( x ): the integer part of x, toward zero.
Trunc(x) == IF x.n >= 0 THEN x.n \div x.d ELSE -((-x.n) \div x.d)

\* C17: a float offset r given to iv[ offset ] is first converted to the
\* integer offset trunc( r * length ) and then evaluated as an integer
\* offset is; for Interval( 0, 10 ) the ratios 0.0, 0.1, 0.5, 0.9 and 1.0
\* give 0, 1, 5, 9 and 10 (the stop), and for RealInterval( 0, 9 ) the
\* ratios 0.0, 0.1, 0.9 and 1.0 give 0, 1, 9 and 10.
C17_RatioIndexing ==
    RatioOffset =>
        LET r == res.arg
            n == Length(py, iv)
            o == Trunc(Mul(r, PyI(n)))
        IN  /\ res.val = Add(Base, Mul(iv.step, PyI(Normalized(o))))
            /\ (IsInterval(FALSE, 0, 10, 1) \/ IsInterval(TRUE, 0, 9, 1)) =>
                  /\ r = Fl(0, 1) => res.val = PyI(0)
                  /\ r = Fl(1, 10) => res.val = PyI(1)
                  /\ r = Fl(9, 10) => res.val = PyI(9)
                  /\ r = Fl(1, 1) => res.val = PyI(10)
            /\ (IsInterval(FALSE, 0, 10, 1) /\ r = Fl(1, 2)) =>
                  res.val = PyI(5)

\* C17 witness: RealInterval( 0, 9 )[ 0.9 ] is 9.
C17_Witness ==
    /\ RatioOffset /\ IsInterval(TRUE, 0, 9, 1)
    /\ res.arg = Fl(9, 10) /\ res.val = PyI(9)

\* The step divides stop - start.
StepDivides ==
    LET q == QDiv(QSub(iv.stop, iv.start), iv.step) IN q[1] % q[2] = 0

\* C18: a RealInterval whose nonzero step divides stop - start has the
\* length |(stop - start) / step| + 1, one more than the Interval of the
\* same start, stop and step, and iv[ length - 1 ] is the stop, for
\* start > stop as for start < stop.
C18_ClosedLength ==
    (iv.real /\ ~StepIsZero(iv) /\ StepDivides) =>
        /\ res.op = "len" =>
              /\ res.val.n = QFloorAbs(QDiv(QSub(iv.stop, iv.start), iv.step)) + 1
              /\ res.val.n = IntervalLen(py, iv) + 1
        /\ (IntOffset /\ res.arg.n >= 0 /\ res.arg.n = Length(py, iv) - 1) =>
              Eq(res.val, iv.stop)

\* The Plane( ( -10, -5 ), ( 10, 5 ), ( 2, 1 ) ) of the example of C19.
IsExamplePlane ==
    /\ thePlane.lefttop = ArgPair(PyI(-10), PyI(-5))
    /\ thePlane.rightbot = ArgPair(PyI(10), PyI(5))
    /\ thePlane.step = ArgPair(PyI(2), PyI(1))

\* An axis runs from a to b with the step s.
AxisIs(axis, a, b, s) ==
    Eq(axis.start, a) /\ axis.stop = b /\ axis.step = s

\* C19: Plane( n ) has the x-axis and the y-axis from 0 to n; Plane( ( w, h ) )
\* has the x-axis from 0 to w and the y-axis from 0 to h;
\* Plane( ( l, t ), ( r, b ) ) has the x-axis from l to r and the y-axis from
\* t to b; the step is 1 when omitted, a single step is the step of both
\* axes and a pair ( sx, sy ) gives each axis its own; so
\* Plane( ( -10, -5 ), ( 10, 5 ), ( 2, 1 ) ) has 10 positions on each axis and
\* the deltas 20 and 10.
C19_PlaneInit ==
    LET lt == thePlane.lefttop
        rb == thePlane.rightbot
        st == thePlane.step
        sx == IF st.kind = "none" THEN PyI(1) ELSE st.a
        sy == IF st.kind = "none" THEN PyI(1)
              ELSE IF st.kind = "num" THEN st.a ELSE st.b
    IN  /\ (rb.kind = "none" /\ lt.kind = "num") =>
               /\ AxisIs(thePlane.x, PyI(0), lt.a, sx)
               /\ AxisIs(thePlane.y, PyI(0), lt.a, sy)
        /\ (rb.kind = "none" /\ lt.kind = "pair") =>
               /\ AxisIs(thePlane.x, PyI(0), lt.a, sx)
               /\ AxisIs(thePlane.y, PyI(0), lt.b, sy)
        /\ rb.kind = "pair" =>
               /\ AxisIs(thePlane.x, lt.a, rb.a, sx)
               /\ AxisIs(thePlane.y, lt.b, rb.b, sy)
        /\ (IsExamplePlane /\ pres.op = "plane") =>
               /\ pres.name = "dimensions" =>
                      pres.a = PyI(10) /\ pres.b = PyI(10)
               /\ pres.name = "delta" => pres.a = PyI(20) /\ pres.b = PyI(10)

\* C19 witness: the dimensions of Plane( ( -10, -5 ), ( 10, 5 ), ( 2, 1 ) )
\* were read as ( 10, 10 ).
C19_Witness ==
    /\ IsExamplePlane
    /\ pres.op = "plane" /\ pres.name = "dimensions"
    /\ pres.kind = "dimension" /\ pres.a = PyI(10) /\ pres.b = PyI(10)

\* The long name of an attribute of a Plane.
LongName(name) ==
    CASE name = "w" -> "width" [] name = "h" -> "height"
      [] name = "l" -> "left" [] name = "r" -> "right"
      [] name = "t" -> "top" [] name = "b" -> "bottom"
      [] name = "lt" -> "lefttop" [] name = "rb" -> "rightbot"
      [] name = "dx" -> "deltax" [] name = "dy" -> "deltay"
      [] name = "d" -> "delta" [] name = "dim" -> "dimensions"
      [] OTHER -> name

\* x / y as a quotient of numbers, y # 0: the nearest float.
Quotient(x, y) == Fl(Sign(y.n) * x.n * y.d, x.d * Abs(y.n))

\* C20: the attributes of a Plane are computed from its axes: width and
\* height are the lengths of the x and the y axis, dimensions is
\* ( width, height ), left / right are the start / stop of x and top / bottom
\* those of y, lefttop and rightbot are the corner points, deltax and deltay
\* the signed extents, aspect is deltax / deltay, and each short alias reads
\* as its long name; any other name on a Plane, and any name other than
\* delta, neg, pos and the stored fields on an Interval, raises
\* AttributeError.
C20_Attributes ==
    /\ pres.op = "plane" =>
          LET x  == thePlane.x
              y  == thePlane.y
              nm == LongName(pres.name)
              dx == Sub(x.stop, x.start)
              dy == Sub(y.stop, y.start)
          IN  /\ (nm = "width" /\ ~StepIsZero(x)) =>
                     pres.err = "" /\ pres.a = PyI(IntervalLen(py, x))
              /\ (nm = "height" /\ ~StepIsZero(y)) =>
                     pres.err = "" /\ pres.a = PyI(IntervalLen(py, y))
              /\ (nm = "dimensions" /\ ~StepIsZero(x) /\ ~StepIsZero(y)) =>
                     /\ pres.err = ""
                     /\ pres.a = PyI(IntervalLen(py, x))
                     /\ pres.b = PyI(IntervalLen(py, y))
              /\ nm = "left" => pres.err = "" /\ pres.a = x.start
              /\ nm = "right" => pres.err = "" /\ pres.a = x.stop
              /\ nm = "top" => pres.err = "" /\ pres.a = y.start
              /\ nm = "bottom" => pres.err = "" /\ pres.a = y.stop
              /\ nm = "lefttop" =>
                     pres.err = "" /\ pres.a = x.start /\ pres.b = y.start
              /\ nm = "rightbot" =>
                     pres.err = "" /\ pres.a = x.stop /\ pres.b = y.stop
              /\ nm = "deltax" => pres.err = "" /\ pres.a = dx
              /\ nm = "deltay" => pres.err = "" /\ pres.a = dy
              /\ nm = "delta" =>
                     pres.err = "" /\ pres.a = dx /\ pres.b = dy
              /\ (nm = "aspect" /\ dy.n # 0) =>
                     pres.err = "" /\ Eq(pres.a, Quotient(dx, dy))
              /\ nm \notin PlaneNames => pres.err = "AttributeError"
    /\ (/\ pres.op = "interval"
        /\ pres.name \notin {"delta", "neg", "pos", "start", "stop", "step"}) =>
          pres.err = "AttributeError"

\* C21: a Map constructed with no arguments has the lines (1, 0) on both
\* axes and its translate returns every point unchanged; a Map constructed
\* from two (slope, intercept) pairs stores exactly those pairs, and omitting
\* one of them defaults only that axis to (1, 0).
IdentityLine == Line(PyF(1, 1), PyF(0, 1))

C21_Constructor ==
    pmap.by = "init" =>
        LET h == pmap.args[1]
            v == pmap.args[2]
        IN  /\ h = NoLine => pmap.map.horizontal = IdentityLine
            /\ h # NoLine => pmap.map.horizontal = h
            /\ v = NoLine => pmap.map.vertical = IdentityLine
            /\ v # NoLine => pmap.map.vertical = v
            /\ (/\ h = NoLine /\ v = NoLine
                /\ mres.op = "translate"
                /\ mres.point # NoPoint
                /\ mres.nearest = NearFlag(FALSE))
               => /\ Eq(mres.val.x, mres.point.x)
                  /\ Eq(mres.val.y, mres.point.y)

C21_Witness ==
    /\ pmap.by = "init"
    /\ pmap.args = <<NoLine, Line(PyF(-1, 1), PyF(0, 1))>>
    /\ pmap.map.horizontal = IdentityLine
    /\ pmap.map.vertical = Line(PyF(-1, 1), PyF(0, 1))
    /\ mres.op = "translate"
    /\ mres.point = Point(PyI(10), PyI(25))

\* C22: interval() with no argument or None returns the continuous interval
\* from 0.0 to 1.0; given one to three numbers, or one tuple or list of up to
\* three numbers, it returns a RealInterval if any of them is a float and an
\* Interval otherwise, a single value v giving start 0 and stop v and the
\* step defaulting to 1.
C22_Factory ==
    res.op = "interval" =>
        LET v == res.arg.vals
        IN  IF res.arg.kind = "none" \/ Len(v) = 0
            THEN /\ iv.real
                 /\ iv.start = PyF(0, 1)
                 /\ iv.stop = PyF(1, 1)
            ELSE /\ iv.mod = "interval"
                 /\ iv.real = (\E k \in 1 .. Len(v) : v[k].t = "float")
                 /\ Len(v) = 1 => Eq(iv.start, PyI(0)) /\ iv.stop = v[1]
                 /\ Len(v) >= 2 => iv.start = v[1] /\ iv.stop = v[2]
                 /\ Len(v) <= 2 => iv.step = PyI(1)
                 /\ Len(v) = 3 => iv.step = v[3]

C22_Witness ==
    /\ res.op = "interval"
    /\ res.arg = [kind |-> "seq", vals |-> <<PyI(2), PyF(8, 1), PyI(2)>>]
    /\ iv = IntervalInit("interval", TRUE, PyI(2), PyF(8, 1), PyI(2))

\* The horizontal midpoint of a plane: left + deltax / 2.
MidX(pl) == Add(left(pl), Div(py, deltax(pl), PyF(2, 1)))

\* C23: map_clipped( source, target, fixed = vertical axis ) returns a Map
\* that mirrors the horizontal-fixed case: its vertical line is that of
\* map_extremes, its horizontal slope equals its vertical slope, and the
\* horizontal midpoint of the source goes to the horizontal midpoint of the
\* target (up to the rounding of the float operations).
C23_VerticalFixed ==
    (/\ pmap.by = "map_clipped" /\ pmap.fixed = AXIS_VERTICAL
     /\ deltax(src).n # 0 /\ deltay(src).n # 0) =>
        /\ pmap.err = ""
        /\ pmap.map # NoMap
        /\ pmap.map.vertical = MapExtremes(py, src, tgt).vertical
        /\ Close(pmap.map.horizontal.a, pmap.map.vertical.a, 3,
                 QAbs(QOver(QSub(bottom(tgt), top(tgt)),
                            QSub(bottom(src), top(src)))))
        /\ Close(Affine(pmap.map.horizontal, MidX(src)), MidX(tgt), 4,
                 ClipMagnitude)

\* Some axis of the source or of the target has a zero delta.
Degenerate ==
    \/ deltax(src).n = 0 \/ deltay(src).n = 0
    \/ deltax(tgt).n = 0 \/ deltay(tgt).n = 0

\* C24: map_extremes and map_clipped fail with an error, and return no Map,
\* whenever the source or the target plane has an axis with zero delta.
C24_DegenerateMapping ==
    (pmap.by \in {"map_extremes", "map_clipped"} /\ Degenerate) =>
        pmap.err # "" /\ pmap.map = NoMap

\* lo <= v <= hi, or v is as near to lo or to hi as the rounding of a
\* translation allows: within 2^(4 - Prec) times the magnitude m.
Inside(v, lo, hi, m) ==
    \/ Le(lo, v) /\ Le(v, hi)
    \/ Close(v, lo, 4, m)
    \/ Close(v, hi, 4, m)

\* C27: for a source and a target plane with positive deltas on both axes,
\* the Map returned by map_clipped( source, target ) translates every point
\* within the extremes of the source to a point within the extremes of the
\* target, on both axes.
C27_ClipInsideTarget ==
    (/\ ClippedH
     /\ deltax(src).n > 0 /\ deltay(src).n > 0
     /\ deltax(tgt).n > 0 /\ deltay(tgt).n > 0
     /\ mres.op = "translate"
     /\ mres.point # NoPoint
     /\ mres.nearest = NearFlag(FALSE)
     /\ Le(left(src), mres.point.x) /\ Le(mres.point.x, right(src))
     /\ Le(top(src), mres.point.y) /\ Le(mres.point.y, bottom(src))) =>
        /\ Inside(mres.val.x, left(tgt), right(tgt), ClipMagnitude)
        /\ Inside(mres.val.y, top(tgt), bottom(tgt), ClipMagnitude)

\* C25: constructing an interval with step == 0 fails at construction: no
\* operation is called on an interval whose step is zero, and no length,
\* indexing, iteration or position computation raises the division error.
C25_ZeroStepFailsFast ==
    /\ (res.op # "none" \/ it.pc # "idle") => ~StepIsZero(iv)
    /\ res.err # "ZeroDivisionError"
    /\ it.pc # "raised"

\* The structural equality of two intervals: the three fields are equal.
SameFields(i, j) ==
    Eq(i.start, j.start) /\ Eq(i.stop, j.stop) /\ Eq(i.step, j.step)

\* C26: an Interval is an immutable value with structural equality: no
\* operation changes its start, stop or step, and two intervals compare
\* equal exactly when their start, stop and step are equal.
C26_ValueSemantics ==
    /\ [](res.op = "eq" => (res.flag <=> SameFields(iv, res.arg.iv)))
    /\ [][iv' = iv]_vars

\* C28: for every interval with a nonzero step and every i below its length,
\* the i-th value produced by iteration equals iv[ i ].
C28_IterationIsIndexing ==
    (~StepIsZero(iv) /\ it.pc \in {"run", "done"}) =>
        \A j \in 1 .. Len(out) : out[j] = GetItem(py, iv, PyI(j - 1))

\* value - start is an exact multiple of step.
OnGrid(i, value) ==
    LET q == QDiv(QSub(value, i.start), i.step) IN q[1] % q[2] = 0

\* C29: for a nonzero step and a value v in the interval, 0 <= getpos( v )
\* < len( iv ), and iv[ getpos( v ) ] == v when v - start is an exact
\* multiple of step.
C29_ValidPosition ==
    (res.op = "getpos" /\ ~StepIsZero(iv) /\ Contains(iv, res.arg)) =>
        /\ res.err = ""
        /\ 0 <= res.val.n /\ res.val.n < Length(py, iv)
        /\ OnGrid(iv, res.arg) => Eq(GetItem(py, iv, res.val), res.arg)

\* The interval of the other module with the same class and fields.
Twin(i) ==
    [i EXCEPT !.mod = IF i.mod = "interval" THEN "cartmap" ELSE "interval"]

\* C30: for every start, stop and nonzero step, the intervals of the two
\* modules have the same delta and length, return the same value for every
\* integer offset and yield the same sequence.
C30_ModulesEquivalent ==
    ~StepIsZero(iv) =>
        /\ delta(Twin(iv)) = delta(iv)
        /\ Length(py, Twin(iv)) = Length(py, iv)
        /\ IntOffset => res.val = GetItem(py, Twin(iv), res.arg)
        /\ it.pc \in {"run", "done"} =>
              \A j \in 1 .. Len(out) :
                  out[j] = IterValue(Twin(iv), Length(py, iv), j - 1)

====
